---- MODULE Spec2Model ----
(***************************************************************************)
(* Parallel file search tool (PyQt5): a FileSearchApp starts one           *)
(* SearchThread per selected file; every thread emits search_complete      *)
(* once; the slots process_search_result and add_search_result run in the  *)
(* GUI thread; ResultAggregationWindow shows the aggregate report when     *)
(* completed_searches == total_windows.                                    *)
(*                                                                         *)
(* Four variants of the program live in the repository and are modelled   *)
(* side by side (variable `variant`):                                      *)
(*   "clean_code"  src/clean_code/*.py                                     *)
(*   "fsp"         src/file-search-project.py                              *)
(*   "ui"          src/ui.py (one FileSearchApp per window, a shared       *)
(*                 aggregator with an 'Aggregate Results' button)          *)
(*   "main"        src/main.py (no aggregator)                             *)
(*                                                                         *)
(* Modelling assumptions (Qt / CPython runtime, not code of the            *)
(* repository): a signal emitted in a worker thread towards a slot of a   *)
(* QObject living in the GUI thread is delivered through the GUI thread's  *)
(* event queue (Qt AutoConnection), in connect order; the GUI thread runs  *)
(* one slot or one click handler at a time; Python objects stay alive as   *)
(* long as a connection or a running thread needs them.                    *)
(*                                                                         *)
(* Specifications:                                                         *)
(*   Spec        all four variants, one search at a time                   *)
(*   SpecEngine  ThreadSafeSearchEngine alone: perform_search called on    *)
(*               one instance over bounded file contents and keywords      *)
(*   SpecSteps   clean_code / fsp with the loop of                         *)
(*               initialize_search_threads taken one iteration at a time,  *)
(*               threads that may block in their read, and a second       *)
(*               search started while the first is running                 *)
(*   FairSteps   SpecSteps with weak fairness of the threads' steps and    *)
(*               of the GUI thread's handler and slots                     *)
(*   SpecModes   the line-mode search_file, the occurrence-mode            *)
(*               search_file and main.py's SearchThread.run on one file    *)
(*   SpecLocks   perform_search taken statement by statement, with         *)
(*               results_lock and threads that may stall anywhere;         *)
(*               FairLocks adds weak fairness of the threads' steps        *)
(*   SpecScan    the loops of search_file taken one iteration at a time;   *)
(*               FairScan adds weak fairness of the threads' steps         *)
(***************************************************************************)
EXTENDS Integers, Sequences, FiniteSets, TLC

\* Bounds of the model.
MaxWindows == 2     \* slots of file_paths / ui windows
MaxSessions == 2    \* SearchThread generations the model has room for
SpecSessions == 1   \* searches the multi-file application starts in Spec
MaxClicks == 1      \* clicks on 'Aggregate Results' (ui.py)
MaxLen == 3         \* characters of a file searched by SpecEngine
MaxKeyLen == 2      \* characters of a keyword of SpecEngine
MaxCalls == 2       \* calls of perform_search on one engine instance
MaxEdits == 1       \* letters whose case is changed between two calls
StepSessions == 2   \* searches started in SpecSteps, overlapping or not
MaxMatches == 8     \* matches of one search_file call followed by SpecScan

Variants == {"clean_code", "fsp", "ui", "main"}
AggVariants == {"clean_code", "fsp"}

Min(S) == CHOOSE x \in S : \A y \in S : x <= y

----------------------------------------------------------------------------
(* Strings are sequences of one-character strings.                         *)

Whitespace == {" ", "\n"}

\* the code point U+017F (LATIN SMALL LETTER LONG S), written in ASCII
LongS == "long_s"

\* str.lower() on the characters the model uses; U+017F is lower case
LowerChar(c) ==
    CASE c = "A" -> "a" [] c = "X" -> "x" [] c = "B" -> "b" [] c = "S" -> "s"
      [] OTHER -> c

\* str.upper() on the characters the model uses; the upper case of U+017F
\* is "S"
UpperChar(c) ==
    CASE c = "a" -> "A" [] c = "x" -> "X" [] c = "b" -> "B" [] c = "s" -> "S"
      [] c = LongS -> "S" [] OTHER -> c

Lower(s) == [i \in 1..Len(s) |-> LowerChar(s[i])]

\* str.strip(): drop leading and trailing whitespace
Strip(s) ==
    LET keep == {i \in 1..Len(s) : s[i] \notin Whitespace}
    IN  IF keep = {} THEN <<>>
        ELSE SubSeq(s, Min(keep), CHOOSE i \in keep : \A j \in keep : j <= i)

\* str.find(needle, start): 0-based offset of the first occurrence at or
\* after start, -1 if none
find(hay, needle, start) ==
    LET cands == {i \in start..(Len(hay) - Len(needle)) :
                     \A j \in 1..Len(needle) : hay[i + j] = needle[j]}
    IN  IF cands = {} THEN -1 ELSE Min(cands)

\* `needle in hay`
Contains(hay, needle) == find(hay, needle, 0) # -1

\* iteration over a text file: the lines, each with its terminator, the
\* last one possibly without
RECURSIVE FileLines(_)
FileLines(content) ==
    IF content = <<>> THEN <<>>
    ELSE LET nl == {i \in 1..Len(content) : content[i] = "\n"}
         IN  IF nl = {} THEN <<content>>
             ELSE <<SubSeq(content, 1, Min(nl))>>
                  \o FileLines(SubSeq(content, Min(nl) + 1, Len(content)))

----------------------------------------------------------------------------
(* The file system the workers read: open(filepath, 'r',                   *)
(* encoding='utf-8') either yields text or raises.                         *)

Paths == {"hit.txt", "nohit.txt", "gone.txt", "denied.txt", "bin.dat"}

FileSystem(path) ==
    CASE path = "hit.txt"   -> [kind |-> "text",
                                content |-> <<"b", "\n", " ", "A", "x", "a", "X">>]
      [] path = "nohit.txt" -> [kind |-> "text", content |-> <<"b", "\n">>]
      [] path = "bin.dat"   -> [kind |-> "UnicodeDecodeError", content |-> <<>>]
      [] path = "denied.txt" -> [kind |-> "PermissionError", content |-> <<>>]
      [] OTHER              -> [kind |-> "FileNotFoundError", content |-> <<>>]

Unreadable(path) == FileSystem(path).kind # "text"

\* the keyword field's text when a search button is clicked
Keywords == {<<>>, <<" ">>, <<"a", "X">>}

----------------------------------------------------------------------------
(* The search engines.  A search_file result is the pair the code returns  *)
(* (matches or None, time) or the exception that leaves the function.      *)

Returned(matches, is_none) ==
    [exc |-> "", is_none |-> is_none, matches |-> matches, time |-> "measured"]

Raised(exc) ==
    [exc |-> exc, is_none |-> TRUE, matches |-> <<>>, time |-> "measured"]

\* the exception classes `except (IOError, PermissionError)` catches
IOErrors == {"FileNotFoundError", "PermissionError"}

\* the while loop of search_file on one line: the offsets found from
\* start_idx on, resuming after each match at match_idx + len(keyword_lower)
\* the scan resumed one character after the match
NextStartOverlapping(match_idx, keyword_lower) == match_idx + 1

\* start_idx = match_idx + len(keyword_lower)
NextStart(match_idx, keyword_lower) == match_idx + Len(keyword_lower)

RECURSIVE Occurrences(_, _, _)
Occurrences(line_lower, keyword_lower, start_idx) ==
    LET match_idx == find(line_lower, keyword_lower, start_idx)
    IN  IF match_idx = -1 THEN <<>>
        ELSE <<match_idx>>
             \o Occurrences(line_lower, keyword_lower,
                            NextStart(match_idx, keyword_lower))

\* f"Line {line_num}: {line.strip()} (Position: {match_idx})"
MatchRecord(line_num, line, match_idx) ==
    [line_num |-> line_num, text |-> Strip(line), position |-> match_idx]

RECURSIVE ScanLines(_, _, _)
ScanLines(lines, line_num, keyword_lower) ==
    IF lines = <<>> THEN <<>>
    ELSE LET offs == Occurrences(Lower(Head(lines)), keyword_lower, 0)
         IN  [i \in 1..Len(offs) |-> MatchRecord(line_num, Head(lines), offs[i])]
             \o ScanLines(Tail(lines), line_num + 1, keyword_lower)

\* the body of search_file, f being what open(filepath) gives
ScanFile(f, keyword) ==
    IF f.kind \in IOErrors THEN Returned(<<>>, TRUE)
    ELSE IF f.kind # "text" THEN Raised(f.kind)
    ELSE LET matches == ScanLines(FileLines(f.content), 1, Lower(keyword))
         IN  Returned(matches, matches = <<>>)

\* clean_code ThreadSafeSearchEngine.search_file (occurrence mode)
search_file(filepath, keyword) == ScanFile(FileSystem(filepath), keyword)

RECURSIVE MatchingLines(_, _)
MatchingLines(lines, keyword) ==
    IF lines = <<>> THEN <<>>
    ELSE (IF Contains(Lower(Head(lines)), Lower(keyword))
          THEN <<Strip(Head(lines))>> ELSE <<>>)
         \o MatchingLines(Tail(lines), keyword)

\* the body of the line-mode search_file, f being what open(filepath)
\* gives
ScanFileLines(f, keyword) ==
    IF f.kind \in IOErrors THEN Returned(<<>>, TRUE)
    ELSE IF f.kind # "text" THEN Raised(f.kind)
    ELSE LET matches == MatchingLines(FileLines(f.content), keyword)
         IN  Returned(matches, matches = <<>>)

\* Old/search_engine.py and file-search-project.py search_file (line mode)
search_file_lines(filepath, keyword) == ScanFileLines(FileSystem(filepath), keyword)

EngineSearchFile(v, filepath, keyword) ==
    IF v = "clean_code" THEN search_file(filepath, keyword)
    ELSE search_file_lines(filepath, keyword)

\* perform_search with the `except Exception` handler left out: what
\* search_file raises leaves perform_search
perform_search_uncaught(v, filepath, keyword) ==
    LET r == EngineSearchFile(v, filepath, keyword)
    IN  [raised |-> r.exc, results |-> r.matches, processing_time |-> r.time]

\* ThreadSafeSearchEngine.__init__: the instance's accumulators
NewEngine == [search_results |-> <<>>, timed_calls |-> 0]

\* perform_search under results_lock: search_results.extend(results) if
\* results, total_processing_time += processing_time (timed_calls counts
\* the additions), e being the instance and r what search_file returned
EngineAfter(e, r) ==
    [search_results |-> e.search_results \o (IF r.is_none THEN <<>> ELSE r.matches),
     timed_calls |-> e.timed_calls + 1]

\* perform_search returning the instance's accumulator
PerformReturnAccumulated(e, r) == e.search_results

\* `return results or [], processing_time`: the list returned, e being the
\* instance after the update and r what search_file returned
PerformReturn(e, r) == IF r.is_none THEN <<>> ELSE r.matches

\* ThreadSafeSearchEngine.perform_search on a new instance:
\* (results or [], processing_time), and ([], 0.0) on any exception
perform_search(v, filepath, keyword) ==
    LET r == EngineSearchFile(v, filepath, keyword)
    IN  IF r.exc # ""
        THEN [raised |-> "", results |-> <<>>, processing_time |-> "0.0"]
        ELSE [raised |-> "", results |-> PerformReturn(EngineAfter(NewEngine, r), r),
              processing_time |-> r.time]

\* str.count(sub) from offset i on: an occurrence at i is counted and the
\* scan goes on after it, otherwise one character further
RECURSIVE CountFrom(_, _, _)
CountFrom(s, sub, i) ==
    IF i + Len(sub) > Len(s) THEN 0
    ELSE IF SubSeq(s, i + 1, i + Len(sub)) = sub
         THEN 1 + CountFrom(s, sub, i + Len(sub))
         ELSE CountFrom(s, sub, i + 1)

\* str.count(sub): non-overlapping occurrences (len(s) + 1 for sub = '')
count(s, sub) == IF sub = <<>> THEN Len(s) + 1 ELSE CountFrom(s, sub, 0)

RECURSIVE MainScan(_, _)
MainScan(lines, keyword) ==
    IF lines = <<>> THEN [matches |-> <<>>, match_count |-> 0]
    ELSE LET occurrences == count(Lower(Head(lines)), Lower(keyword))
             rest == MainScan(Tail(lines), keyword)
         IN  [matches |-> (IF occurrences > 0 THEN <<Strip(Head(lines))>> ELSE <<>>)
                          \o rest.matches,
              match_count |-> occurrences + rest.match_count]

\* main.py SearchThread.run: the dict it emits, f being what
\* open(self.filepath) gives
MainRunRecord(f, window_id, filepath, keyword) ==
    IF f.kind # "text"
    THEN [window_id |-> window_id, filepath |-> filepath, matches |-> <<>>,
          error |-> f.kind, processing_time |-> "measured"]
    ELSE LET m == MainScan(FileLines(f.content), keyword)
         IN  [window_id |-> window_id, filepath |-> filepath,
              matches |-> m.matches, match_count |-> m.match_count,
              processing_time |-> "measured"]

\* The dict SearchThread.run emits, per variant.  A record is a function
\* from the keys the dict holds.
RunRecord(v, window_id, filepath, keyword) ==
    IF v = "main"
    THEN MainRunRecord(FileSystem(filepath), window_id, filepath, keyword)
    ELSE LET p == perform_search(v, filepath, keyword)
         IN  IF v = "ui"
             THEN [window_id |-> window_id, filepath |-> filepath,
                   results |-> p.results, processing_time |-> p.processing_time]
             ELSE [window_id |-> window_id, filepath |-> filepath,
                   results |-> p.results, match_count |-> Len(p.results),
                   processing_time |-> p.processing_time]

\* the exception that leaves SearchThread.run ("" if none)
RunRaises(v, filepath, keyword) ==
    IF v = "main" THEN "" ELSE perform_search(v, filepath, keyword).raised

----------------------------------------------------------------------------
(* State.                                                                  *)

VARIABLES
    variant,          \* which program of the repository runs
    file_paths,       \* FileSearchApp.file_paths
    sess,             \* per accepted start click: the keyword and file_paths it read
    agg,              \* the ResultAggregationWindow objects, by session
    worker,           \* the SearchThread objects, by <<session, window_id>>
    inbox,            \* per thread of execution: slot invocations it has to run
    cur,              \* per thread of execution: the slot invocation it is inside
    results_table,    \* FileSearchApp.results_table (the per-file rows)
    results_display,  \* ui.py: FileSearchApp.results_display, by window
    slot_errors,      \* exceptions raised inside a slot
    text_file,        \* SpecEngine: the file perform_search is called on
    kw_input,         \* SpecEngine: the keyword perform_search is called with
    engine,           \* SpecEngine: a ThreadSafeSearchEngine instance
    engine_calls,     \* SpecEngine: the calls made on engine, and their returns
    edits,            \* SpecEngine: letters whose case was changed so far
    mode_runs,        \* SpecModes: what each search implementation gave
    results_lock,     \* SpecLocks: the holder of each engine's results_lock
    scan              \* SpecScan: where each thread is in the loops of search_file

appvars == <<variant, file_paths, sess, agg, worker, inbox, cur, results_table,
             results_display, slot_errors>>

enginevars == <<text_file, kw_input, engine, engine_calls, edits, mode_runs,
                results_lock, scan>>

vars == <<appvars, enginevars>>

Sessions == 1..MaxSessions
Windows == 1..MaxWindows
WorkerIds == Sessions \X Windows
GUI == <<0, 0>>                      \* the GUI (main) thread
Contexts == {GUI} \cup WorkerIds     \* threads of execution

\* the ThreadSafeSearchEngine objects: one per SearchThread, and the one
\* a program sharing a single engine between its threads would have
SharedEngine == <<0, 0>>
Engines == WorkerIds \cup {SharedEngine}

\* a thread that has not entered the loops of search_file
NoScan == [line_num |-> 0, start_idx |-> 0, found |-> 0]

\* threading.Lock() unlocked: held by no thread
Free == <<0, 0>>

NoRec == [window_id |-> 0]
NoItem == [rec |-> NoRec, from |-> GUI]
Idle == [pc |-> "idle", target |-> 0, i |-> 0, item |-> NoItem]

NoSession == [created |-> FALSE, keyword |-> <<>>, paths |-> <<>>]

NoWorker == [pc |-> "none", filepath |-> "", keyword |-> <<>>, emits |-> 0]

\* no search implementation has run yet
NoRuns ==
    [done |-> {}, lines |-> Returned(<<>>, TRUE), occurrences |-> Returned(<<>>, TRUE),
     main |-> NoRec]

NoAggregator ==
    [exists |-> FALSE, total_windows |-> 0, completed_searches |-> 0,
     all_results |-> <<>>, results_table |-> <<>>, shown |-> 0]

\* __init__ with the counter starting at 1 instead of 0
NewAggregatorCountsFromOne(total_windows) ==
    [exists |-> TRUE, total_windows |-> total_windows, completed_searches |-> 1,
     all_results |-> <<>>, results_table |-> <<>>, shown |-> 0]

\* ResultAggregationWindow.__init__(total_windows)
NewAggregator(total_windows) ==
    [exists |-> TRUE, total_windows |-> total_windows, completed_searches |-> 0,
     all_results |-> <<>>, results_table |-> <<>>, shown |-> 0]

\* sessions started so far
NumSessions == Cardinality({s \in Sessions : sess[s].created})

\* ui.py: searches started so far, over all windows
NumSearches == Cardinality({w \in WorkerIds : worker[w].pc # "none"})

Init ==
    /\ variant \in Variants
    /\ file_paths = <<>>
    /\ sess = [s \in Sessions |-> NoSession]
    /\ agg \in IF variant = "ui"
               THEN {[s \in Sessions |-> IF s = 1 THEN a ELSE NoAggregator] :
                        a \in {NoAggregator, NewAggregator(MaxWindows)}}
               ELSE {[s \in Sessions |-> NoAggregator]}
    /\ worker = [w \in WorkerIds |-> NoWorker]
    /\ inbox = [c \in Contexts |-> <<>>]
    /\ cur = [c \in Contexts |-> Idle]
    /\ results_table = <<>>
    /\ results_display = [w \in Windows |-> ""]
    /\ slot_errors = {}
    /\ text_file = [kind |-> "text", content |-> <<>>]
    /\ kw_input = <<>>
    /\ engine = NewEngine
    /\ engine_calls = <<>>
    /\ edits = 0
    /\ mode_runs = NoRuns
    /\ results_lock = [e \in Engines |-> Free]
    /\ scan = [w \in WorkerIds |-> NoScan]

----------------------------------------------------------------------------
(* FileSearchApp: the click handlers.  They run in the GUI thread, between *)
(* two slot invocations.                                                   *)

GuiIdle == cur[GUI].pc = "idle"

\* create_search_windows: file_paths is reset; the windows get Browse buttons
create_search_windows ==
    /\ variant # "ui"
    /\ GuiIdle
    /\ file_paths' = <<>>
    /\ UNCHANGED <<enginevars, variant, sess, agg, worker, inbox, cur, results_table,
                   results_display, slot_errors>>

\* select_file(window_id, file_input): window_id is 0-based; file_path is
\* what the dialog returns ('' when cancelled)
select_file(window_id, file_path) ==
    /\ variant # "ui"
    /\ GuiIdle
    /\ LET n == IF Len(file_paths) <= window_id THEN window_id + 1
                ELSE Len(file_paths)
           padded == [i \in 1..n |-> IF i <= Len(file_paths) THEN file_paths[i] ELSE ""]
       IN  file_paths' = [padded EXCEPT ![window_id + 1] = file_path]
    /\ UNCHANGED <<enginevars, variant, sess, agg, worker, inbox, cur, results_table,
                   results_display, slot_errors>>

\* the validation without its test of the keyword
validate_file_paths_only(v, text, paths) == Len(paths) # 0

\* validate_search_parameters (clean_code); the inline checks of
\* start_parallel_search (file-search-project.py) and start_global_search
\* (main.py)
validate_search_parameters(v, text, paths) ==
    /\ (IF v = "clean_code" THEN Strip(text) ELSE text) # <<>>
    /\ Len(paths) # 0

\* the keyword handed to SearchThread
KeywordArg(v, text) == IF v = "clean_code" THEN Strip(text) ELSE text

\* the argument of ResultAggregationWindow(...), one too small
TotalWindowsOffByOne(paths) == Len(paths) - 1

\* the argument of ResultAggregationWindow(...)
TotalWindowsArg(paths) == Len(paths)

\* the loop without its `if filepath:` test
ThreadSlotsAll(paths) == 1..Len(paths)

\* the slots of file_paths that get a SearchThread: `if filepath:`
ThreadSlots(paths) == {i \in 1..Len(paths) : paths[i] # ""}

\* start_parallel_search / start_global_search, text being the keyword
\* field's content
start_parallel_search(text) ==
    /\ variant # "ui"
    /\ GuiIdle
    /\ IF ~validate_search_parameters(variant, text, file_paths)
       THEN UNCHANGED vars
       ELSE /\ NumSessions < MaxSessions
            /\ LET sid == NumSessions + 1
               IN  /\ sess' = [sess EXCEPT ![sid] =
                                  [created |-> TRUE, keyword |-> text,
                                   paths |-> file_paths]]
                   /\ results_table' = <<>>
                   /\ agg' = IF variant \in AggVariants
                             THEN [agg EXCEPT ![sid] =
                                      NewAggregator(TotalWindowsArg(file_paths))]
                             ELSE agg
                   /\ worker' = [w \in WorkerIds |->
                                   IF w[1] = sid /\ w[2] \in ThreadSlots(file_paths)
                                   THEN [pc |-> "started",
                                         filepath |-> file_paths[w[2]],
                                         keyword |-> KeywordArg(variant, text),
                                         emits |-> 0]
                                   ELSE worker[w]]
            /\ UNCHANGED <<enginevars, variant, file_paths, inbox, cur, results_display,
                           slot_errors>>

\* ui.py FileSearchApp.start_search of window w, with the texts of its
\* file and keyword fields
start_search(w, filepath, text) ==
    /\ variant = "ui"
    /\ GuiIdle
    /\ IF filepath = "" \/ text = <<>>
       THEN /\ results_display' = [results_display EXCEPT
                                      ![w] = "Please provide file and keyword"]
            /\ UNCHANGED worker
       ELSE /\ NumSearches < MaxSessions
            /\ results_display' = [results_display EXCEPT ![w] = ""]
            /\ worker' = [worker EXCEPT ![<<NumSearches + 1, w>>] =
                             [pc |-> "started", filepath |-> filepath,
                              keyword |-> text, emits |-> 0]]
    /\ UNCHANGED <<enginevars, variant, file_paths, sess, agg, inbox, cur, results_table,
                   slot_errors>>

----------------------------------------------------------------------------
(* SearchThread.run, in two steps: the search, then the emit.              *)

\* connect(slot, type=Qt.DirectConnection): the slot runs in the emitting
\* thread
DirectConnection == "DirectConnection"

\* how search_complete reaches its slots: connect() without a connection
\* type is Qt.AutoConnection, queued when the emitter's thread is not the
\* receiver's
ConnectionType == "AutoConnection"

\* the thread that runs the slots of a signal emitted by worker w
DeliveryContext(w) == IF ConnectionType = "DirectConnection" THEN w ELSE GUI

\* add_search_result connected twice
ConnectedSlotsTwice(v, w) ==
    <<[slot |-> "process_search_result", target |-> 0],
      [slot |-> "add_search_result", target |-> w[1]],
      [slot |-> "add_search_result", target |-> w[1]]>>

\* the slots the start handler connected to search_complete, in connect
\* order, with the object each is bound to
ConnectedSlots(v, w) ==
    CASE v \in AggVariants ->
            <<[slot |-> "process_search_result", target |-> 0],
              [slot |-> "add_search_result", target |-> w[1]]>>
      [] v = "main" -> <<[slot |-> "process_search_result", target |-> 0]>>
      [] v = "ui"   -> <<[slot |-> "display_results", target |-> w[2]]>>

Search(w) ==
    /\ worker[w].pc = "started"
    /\ worker' = [worker EXCEPT ![w].pc =
                     IF RunRaises(variant, worker[w].filepath, worker[w].keyword) # ""
                     THEN "crashed" ELSE "searched"]
    /\ UNCHANGED <<enginevars, variant, file_paths, sess, agg, inbox, cur, results_table,
                   results_display, slot_errors>>

Emit(w) ==
    /\ worker[w].pc = "searched"
    /\ LET rec == RunRecord(variant, w[2], worker[w].filepath, worker[w].keyword)
           slots == ConnectedSlots(variant, w)
           calls == [i \in 1..Len(slots) |->
                        [slot |-> slots[i].slot, target |-> slots[i].target,
                         item |-> [rec |-> rec, from |-> w]]]
       IN  inbox' = [inbox EXCEPT ![DeliveryContext(w)] = @ \o calls]
    /\ worker' = [worker EXCEPT ![w].pc = "emitted", ![w].emits = @ + 1]
    /\ UNCHANGED <<enginevars, variant, file_paths, sess, agg, cur, results_table,
                   results_display, slot_errors>>

----------------------------------------------------------------------------
(* The slots.  c is the thread of execution that runs the slot: it takes   *)
(* the next invocation of its inbox when it is inside no slot.             *)

NextCall(c, slot) ==
    /\ cur[c].pc = "idle"
    /\ inbox[c] # <<>>
    /\ Head(inbox[c]).slot = slot

\* the row process_search_result adds: result['match_count'] raises
\* KeyError on a record without that key, after the row was inserted and
\* its first two cells set
TableRow(item) ==
    [window_id |-> item.rec.window_id, filepath |-> item.rec.filepath,
     match_count |-> IF "match_count" \in DOMAIN item.rec
                     THEN item.rec.match_count ELSE -1,
     from |-> item.from]

\* FileSearchApp.process_search_result
process_search_result(c) ==
    /\ NextCall(c, "process_search_result")
    /\ LET item == Head(inbox[c]).item
       IN  /\ results_table' = Append(results_table, TableRow(item))
           /\ slot_errors' = IF "match_count" \in DOMAIN item.rec
                             THEN slot_errors
                             ELSE slot_errors \cup {"KeyError"}
    /\ inbox' = [inbox EXCEPT ![c] = Tail(@)]
    /\ UNCHANGED <<enginevars, variant, file_paths, sess, agg, worker, cur, results_display>>

\* the completion test of add_search_result, with the comparison reversed
CompletionReachedLe(a) == a.completed_searches <= a.total_windows

\* `if self.completed_searches == self.total_windows`
CompletionReached(a) == a.completed_searches = a.total_windows

\* item put at its place in a list ordered by window_id
RECURSIVE InsertByWindowId(_, _)
InsertByWindowId(item, items) ==
    IF items = <<>> THEN <<item>>
    ELSE IF item.rec.window_id < Head(items).rec.window_id THEN <<item>> \o items
    ELSE <<Head(items)>> \o InsertByWindowId(item, Tail(items))

RECURSIVE SortByWindowId(_)
SortByWindowId(items) ==
    IF items = <<>> THEN <<>>
    ELSE InsertByWindowId(Head(items), SortByWindowId(Tail(items)))

\* show_aggregated_results filling the table from sorted(self.all_results)
show_aggregated_results_sorted(a) ==
    [a EXCEPT !.results_table = SortByWindowId(a.all_results), !.shown = @ + 1]

\* ResultAggregationWindow.show_aggregated_results: the table is cleared
\* and filled with all_results; shown counts the runs
show_aggregated_results(a) ==
    [a EXCEPT !.results_table = a.all_results, !.shown = @ + 1]

\* add_search_result, first statement: self.all_results.append(result_dict)
AddAppend(c) ==
    /\ \/ /\ NextCall(c, "add_search_result")
          /\ inbox' = [inbox EXCEPT ![c] = Tail(@)]
          /\ LET call == Head(inbox[c])
             IN  /\ agg' = [agg EXCEPT ![call.target].all_results =
                               Append(@, call.item)]
                 /\ cur' = [cur EXCEPT ![c] =
                               [pc |-> "increment", target |-> call.target,
                                i |-> 0, item |-> call.item]]
       \/ /\ cur[c].pc = "call_add"
          /\ UNCHANGED inbox
          /\ agg' = [agg EXCEPT ![cur[c].target].all_results = Append(@, cur[c].item)]
          /\ cur' = [cur EXCEPT ![c].pc = "increment"]
    /\ UNCHANGED <<enginevars, variant, file_paths, sess, worker, results_table,
                   results_display, slot_errors>>

\* add_search_result, second statement: self.completed_searches += 1
AddIncrement(c) ==
    /\ cur[c].pc = "increment"
    /\ agg' = [agg EXCEPT ![cur[c].target].completed_searches = @ + 1]
    /\ cur' = [cur EXCEPT ![c].pc = "compare"]
    /\ UNCHANGED <<enginevars, variant, file_paths, sess, worker, inbox, results_table,
                   results_display, slot_errors>>

\* add_search_result, third statement: the test and show_aggregated_results
AddCompare(c) ==
    /\ cur[c].pc = "compare"
    /\ agg' = [agg EXCEPT ![cur[c].target] =
                  IF CompletionReached(@) THEN show_aggregated_results(@) ELSE @]
    /\ cur' = [cur EXCEPT ![c] = Idle]
    /\ UNCHANGED <<enginevars, variant, file_paths, sess, worker, inbox, results_table,
                   results_display, slot_errors>>

\* ui.py FileSearchApp.display_results of window call.target: a record
\* with no results is shown as 'No matches found.' and the slot returns;
\* otherwise the record is passed on to the aggregator, if there is one
display_results(c) ==
    /\ NextCall(c, "display_results")
    /\ LET call == Head(inbox[c])
       IN  IF call.item.rec.results = <<>>
           THEN /\ results_display' = [results_display EXCEPT
                                          ![call.target] = "No matches found."]
                /\ UNCHANGED cur
           ELSE /\ results_display' = [results_display EXCEPT
                                          ![call.target] = "Matches"]
                /\ cur' = IF agg[1].exists
                          THEN [cur EXCEPT ![c] = [pc |-> "call_add", target |-> 1,
                                                   i |-> 0, item |-> call.item]]
                          ELSE cur
    /\ inbox' = [inbox EXCEPT ![c] = Tail(@)]
    /\ UNCHANGED <<enginevars, variant, file_paths, sess, agg, worker, results_table,
                   slot_errors>>

\* ui.py: a click on 'Aggregate Results'
aggregate_btn_clicked ==
    /\ variant = "ui"
    /\ GuiIdle
    /\ agg[1].exists
    /\ agg[1].shown < MaxClicks
    /\ agg' = [agg EXCEPT ![1] = show_aggregated_results(@)]
    /\ UNCHANGED <<enginevars, variant, file_paths, sess, worker, inbox, cur, results_table,
                   results_display, slot_errors>>

----------------------------------------------------------------------------

\* no search is in progress: every thread created has terminated and every
\* slot invocation has run
Terminated(w) == worker[w].pc \in {"none", "emitted", "crashed"}

Quiescent ==
    /\ \A w \in WorkerIds : Terminated(w)
    /\ \A c \in Contexts : inbox[c] = <<>> /\ cur[c].pc = "idle"

(* In Spec the user of the multi-file application selects files and starts *)
(* a search only while no search is in progress; the windows of ui.py are  *)
(* used independently of each other.                                       *)
Next ==
    \/ Quiescent /\ NumSessions < SpecSessions /\ create_search_windows
    \/ Quiescent /\ NumSessions < SpecSessions
          /\ \E i \in 0..(MaxWindows - 1), p \in Paths \cup {""} : select_file(i, p)
    \/ Quiescent /\ NumSessions < SpecSessions
          /\ \E text \in Keywords : start_parallel_search(text)
    \/ \E w \in Windows, p \in Paths \cup {""}, text \in {<<>>, <<"a", "X">>} :
          start_search(w, p, text)
    \/ aggregate_btn_clicked
    \/ \E w \in WorkerIds : Search(w)
    \/ \E w \in WorkerIds : Emit(w)
    \/ \E c \in Contexts : process_search_result(c)
    \/ \E c \in Contexts : AddAppend(c)
    \/ \E c \in Contexts : AddIncrement(c)
    \/ \E c \in Contexts : AddCompare(c)
    \/ \E c \in Contexts : display_results(c)

Spec == Init /\ [][Next]_vars

----------------------------------------------------------------------------
(* SpecEngine: one ThreadSafeSearchEngine instance (clean_code) called     *)
(* MaxCalls times on a text file, for every file of at most MaxLen         *)
(* characters and every keyword of 1..MaxKeyLen letters; between two       *)
(* calls the case of a letter of the file or of the keyword may be         *)
(* changed.                                                                *)

Letters == {"a", "A", "s", "S", LongS}
Alphabet == Letters \cup {"\n"}

SeqsUpTo(S, lo, hi) == UNION {[1..n -> S] : n \in lo..hi}

\* the line "aSaSaS" of six characters, beyond MaxLen
LongLine == <<"a", "S", "a", "S", "a", "S">>

Contents == SeqsUpTo(Alphabet, 0, MaxLen) \cup {LongLine}

EngineKeywords == SeqsUpTo(Letters, 1, MaxKeyLen)

InitEngine ==
    /\ variant = "clean_code"
    /\ file_paths = <<>>
    /\ sess = [s \in Sessions |-> NoSession]
    /\ agg = [s \in Sessions |-> NoAggregator]
    /\ worker = [w \in WorkerIds |-> NoWorker]
    /\ inbox = [c \in Contexts |-> <<>>]
    /\ cur = [c \in Contexts |-> Idle]
    /\ results_table = <<>>
    /\ results_display = [w \in Windows |-> ""]
    /\ slot_errors = {}
    /\ text_file \in {[kind |-> "text", content |-> c] : c \in Contents}
    /\ kw_input \in EngineKeywords
    /\ engine = NewEngine
    /\ engine_calls = <<>>
    /\ edits = 0
    /\ mode_runs = NoRuns
    /\ results_lock = [e \in Engines |-> Free]
    /\ scan = [w \in WorkerIds |-> NoScan]

\* engine.perform_search(filepath, keyword) on the file and keyword of the
\* state: search_file, the update of the accumulators, the return
CallPerformSearch ==
    /\ Len(engine_calls) < MaxCalls
    /\ LET r == ScanFile(text_file, kw_input)
           e == EngineAfter(engine, r)
       IN  /\ engine' = e
           /\ engine_calls' = Append(engine_calls,
                  [content |-> text_file.content, keyword |-> kw_input,
                   found |-> r, results |-> PerformReturn(e, r)])
    /\ UNCHANGED <<appvars, text_file, kw_input, edits, mode_runs, results_lock,
                   scan>>

\* the string s with the case of its character i changed to c
WithCase(s, i, c) == [s EXCEPT ![i] = c]

\* the other case of character c, if it has one
OtherCases(c) == {UpperChar(c), LowerChar(c)} \ {c}

\* between two calls the file is rewritten, or the keyword retyped, with
\* the case of one letter changed
ChangeCase ==
    /\ Len(engine_calls) \in 1..(MaxCalls - 1)
    /\ edits < MaxEdits
    /\ edits' = edits + 1
    /\ \/ \E i \in 1..Len(text_file.content) :
             \E c \in OtherCases(text_file.content[i]) :
                /\ text_file' = [text_file EXCEPT
                                    !.content = WithCase(@, i, c)]
                /\ UNCHANGED kw_input
       \/ \E i \in 1..Len(kw_input) :
             \E c \in OtherCases(kw_input[i]) :
                /\ kw_input' = WithCase(kw_input, i, c)
                /\ UNCHANGED text_file
    /\ UNCHANGED <<appvars, engine, engine_calls, mode_runs, results_lock, scan>>

NextEngine ==
    \/ CallPerformSearch
    \/ ChangeCase

SpecEngine == InitEngine /\ [][NextEngine]_vars

----------------------------------------------------------------------------
(* SpecModes: the three search implementations of the repository run on    *)
(* the same file with the same keyword: the line-mode search_file          *)
(* (Old/search_engine.py), the occurrence-mode search_file (clean_code),   *)
(* and SearchThread.run of main.py.  The file is any text of at most       *)
(* MaxLen characters or a file that cannot be read.                        *)

UnreadableFiles ==
    {[kind |-> k, content |-> <<>>] :
        k \in {"FileNotFoundError", "PermissionError", "UnicodeDecodeError"}}

InitModes ==
    /\ variant = "clean_code"
    /\ file_paths = <<>>
    /\ sess = [s \in Sessions |-> NoSession]
    /\ agg = [s \in Sessions |-> NoAggregator]
    /\ worker = [w \in WorkerIds |-> NoWorker]
    /\ inbox = [c \in Contexts |-> <<>>]
    /\ cur = [c \in Contexts |-> Idle]
    /\ results_table = <<>>
    /\ results_display = [w \in Windows |-> ""]
    /\ slot_errors = {}
    /\ text_file \in {[kind |-> "text", content |-> c] : c \in Contents}
                        \cup UnreadableFiles
    /\ kw_input \in EngineKeywords
    /\ engine = NewEngine
    /\ engine_calls = <<>>
    /\ edits = 0
    /\ mode_runs = NoRuns
    /\ results_lock = [e \in Engines |-> Free]
    /\ scan = [w \in WorkerIds |-> NoScan]

\* Old/search_engine.py search_file on the file and keyword of the state
RunLineMode ==
    /\ "lines" \notin mode_runs.done
    /\ mode_runs' = [mode_runs EXCEPT !.done = @ \cup {"lines"},
                                      !.lines = ScanFileLines(text_file, kw_input)]
    /\ UNCHANGED <<appvars, text_file, kw_input, engine, engine_calls, edits,
                   results_lock, scan>>

\* clean_code search_file on the file and keyword of the state
RunOccurrenceMode ==
    /\ "occurrences" \notin mode_runs.done
    /\ mode_runs' = [mode_runs EXCEPT !.done = @ \cup {"occurrences"},
                                      !.occurrences = ScanFile(text_file, kw_input)]
    /\ UNCHANGED <<appvars, text_file, kw_input, engine, engine_calls, edits,
                   results_lock, scan>>

\* main.py SearchThread.run on the file and keyword of the state
RunMainMode ==
    /\ "main" \notin mode_runs.done
    /\ mode_runs' = [mode_runs EXCEPT !.done = @ \cup {"main"},
                                      !.main = MainRunRecord(text_file, 1, "", kw_input)]
    /\ UNCHANGED <<appvars, text_file, kw_input, engine, engine_calls, edits,
                   results_lock, scan>>

NextModes ==
    \/ RunLineMode
    \/ RunOccurrenceMode
    \/ RunMainMode

SpecModes == InitModes /\ [][NextModes]_vars

----------------------------------------------------------------------------
(* SpecSteps: start_parallel_search of clean_code and                      *)
(* file-search-project.py run statement by statement, so that threads      *)
(* started by the first iterations of the loop run while the handler is    *)
(* still in the loop; a new search may be started while threads of an      *)
(* earlier one are running; a thread may block for ever in its file read.  *)

StepPaths == {"hit.txt", "gone.txt"}

InitSteps == Init /\ variant \in AggVariants

\* start_parallel_search up to the loop of initialize_search_threads:
\* validation, reset_search_results, ResultAggregationWindow(...),
\* search_threads.clear()
start_parallel_search_enter(text) ==
    /\ variant \in AggVariants
    /\ GuiIdle
    /\ IF ~validate_search_parameters(variant, text, file_paths)
       THEN UNCHANGED vars
       ELSE /\ NumSessions < MaxSessions
            /\ LET sid == NumSessions + 1
               IN  /\ sess' = [sess EXCEPT ![sid] =
                                  [created |-> TRUE, keyword |-> text,
                                   paths |-> file_paths]]
                   /\ results_table' = <<>>
                   /\ agg' = [agg EXCEPT ![sid] =
                                 NewAggregator(TotalWindowsArg(file_paths))]
                   /\ cur' = [cur EXCEPT ![GUI] =
                                 [pc |-> "init_threads", target |-> sid, i |-> 1,
                                  item |-> [rec |-> NoRec, from |-> <<sid, 0>>]]]
            /\ UNCHANGED <<enginevars, variant, file_paths, worker, inbox,
                           results_display, slot_errors>>

\* thread.start() followed by thread.wait(): the loop goes on when the
\* threads started so far have terminated
LoopWaitsForThreads(sid) ==
    \A w \in WorkerIds : w[1] = sid => Terminated(w)

\* thread.start() returns at once: the loop of initialize_search_threads
\* goes on whatever the threads of session sid started so far are doing
LoopMayProceed(sid) == TRUE

\* one iteration of `for i, filepath in enumerate(self.file_paths)`, or,
\* after the last one, results_aggregator.show() and the handler's return
initialize_search_threads ==
    /\ cur[GUI].pc = "init_threads"
    /\ LoopMayProceed(cur[GUI].target)
    /\ LET sid == cur[GUI].target
           i == cur[GUI].i
           paths == sess[sid].paths
       IN  IF i > Len(paths)
           THEN /\ cur' = [cur EXCEPT ![GUI] = Idle]
                /\ UNCHANGED worker
           ELSE /\ cur' = [cur EXCEPT ![GUI].i = i + 1]
                /\ worker' = IF i \in ThreadSlots(paths)
                             THEN [worker EXCEPT ![<<sid, i>>] =
                                      [pc |-> "started", filepath |-> paths[i],
                                       keyword |-> KeywordArg(variant, sess[sid].keyword),
                                       emits |-> 0]]
                             ELSE worker
    /\ UNCHANGED <<enginevars, variant, file_paths, sess, agg, inbox, results_table,
                   results_display, slot_errors>>

\* the read of worker w's file never returns (no timeout, no cancellation)
Hang(w) ==
    /\ worker[w].pc = "started"
    /\ worker' = [worker EXCEPT ![w].pc = "hung"]
    /\ UNCHANGED <<enginevars, variant, file_paths, sess, agg, inbox, cur,
                   results_table, results_display, slot_errors>>

NextSteps ==
    \/ NumSessions = 0
          /\ \E i \in 0..(MaxWindows - 1), p \in StepPaths \cup {""} : select_file(i, p)
    \/ NumSessions < StepSessions
          /\ \E text \in {<<>>, <<"a", "X">>} : start_parallel_search_enter(text)
    \/ initialize_search_threads
    \/ \E w \in WorkerIds : Hang(w)
    \/ \E w \in WorkerIds : Search(w)
    \/ \E w \in WorkerIds : Emit(w)
    \/ \E c \in Contexts : process_search_result(c)
    \/ \E c \in Contexts : AddAppend(c)
    \/ \E c \in Contexts : AddIncrement(c)
    \/ \E c \in Contexts : AddCompare(c)

SpecSteps == InitSteps /\ [][NextSteps]_vars

\* what a Search(w) step does to worker: the search of thread w returns
SearchReturns(w) ==
    /\ worker[w].pc = "started"
    /\ \E pc \in {"searched", "crashed"} : worker' = [worker EXCEPT ![w].pc = pc]

\* what an Emit(w) step does to worker
Emits(w) ==
    /\ worker[w].pc = "searched"
    /\ worker' = [worker EXCEPT ![w].pc = "emitted", ![w].emits = @ + 1]

\* The operating system runs every thread that can run: a thread whose
\* read returns finishes its search and then emits (fairness of Search(w)
\* and Emit(w), stated on what they do to worker; a blocked read is
\* Hang(w)).  The GUI thread's event loop runs the handler it is in and
\* every queued slot invocation.  Nothing makes the user click.
FairSteps ==
    /\ SpecSteps
    /\ WF_vars(initialize_search_threads)
    /\ \A w \in WorkerIds : WF_worker(SearchReturns(w)) /\ WF_worker(Emits(w))
    /\ WF_vars(process_search_result(GUI))
    /\ WF_vars(AddAppend(GUI))
    /\ WF_vars(AddIncrement(GUI))
    /\ WF_vars(AddCompare(GUI))

----------------------------------------------------------------------------
(* SpecLocks: SearchThread.run of clean_code and file-search-project.py    *)
(* with perform_search taken statement by statement: search_file, the      *)
(* acquisition of results_lock, the update and release, then the emit.  A  *)
(* thread may stall for ever at any of these points.                       *)

\* every SearchThread holding the same engine object
SearchEngineShared(w) == SharedEngine

\* SearchThread.__init__: self.search_engine = ThreadSafeSearchEngine(),
\* an engine (and a results_lock) of the thread's own
SearchEngineOf(w) == w

\* perform_search: search_file returns or raises; what it raises is caught
\* by `except Exception` before results_lock is reached
SearchFileStep(w) ==
    /\ worker[w].pc = "started"
    /\ LET r == EngineSearchFile(variant, worker[w].filepath, worker[w].keyword)
       IN  worker' = [worker EXCEPT ![w].pc =
                         IF r.exc = "" THEN "scanned"
                         ELSE IF RunRaises(variant, worker[w].filepath,
                                           worker[w].keyword) # ""
                              THEN "crashed" ELSE "searched"]
    /\ UNCHANGED <<enginevars, variant, file_paths, sess, agg, inbox, cur,
                   results_table, results_display, slot_errors>>

\* `with self.results_lock:` entered: the thread waits until the lock is
\* unlocked and takes it
AcquireLock(w) ==
    /\ worker[w].pc = "scanned"
    /\ results_lock[SearchEngineOf(w)] = Free
    /\ results_lock' = [results_lock EXCEPT ![SearchEngineOf(w)] = w]
    /\ worker' = [worker EXCEPT ![w].pc = "locked"]
    /\ UNCHANGED <<text_file, kw_input, engine, engine_calls, edits, mode_runs, scan,
                   variant, file_paths, sess, agg, inbox, cur, results_table,
                   results_display, slot_errors>>

\* the block under the lock (search_results.extend, total_processing_time
\* +=) has run and the lock is released
ReleaseLock(w) ==
    /\ worker[w].pc = "locked"
    /\ results_lock' = [results_lock EXCEPT ![SearchEngineOf(w)] = Free]
    /\ worker' = [worker EXCEPT ![w].pc = "searched"]
    /\ UNCHANGED <<text_file, kw_input, engine, engine_calls, edits, mode_runs, scan,
                   variant, file_paths, sess, agg, inbox, cur, results_table,
                   results_display, slot_errors>>

\* the points of run where a thread can stall: reading its file, before
\* the lock, holding the lock, before the emit
Running == {"started", "scanned", "locked", "searched"}

\* thread w stalls for ever where it is; a lock it holds stays held
Stall(w) ==
    /\ worker[w].pc \in Running
    /\ worker' = [worker EXCEPT ![w].pc = "hung"]
    /\ UNCHANGED <<enginevars, variant, file_paths, sess, agg, inbox, cur,
                   results_table, results_display, slot_errors>>

NextLocks ==
    \/ NumSessions = 0
          /\ \E i \in 0..(MaxWindows - 1), p \in StepPaths \cup {"bin.dat"} :
                select_file(i, p)
    \/ NumSessions < SpecSessions
          /\ variant \in AggVariants
          /\ start_parallel_search(<<"a", "X">>)
    \/ \E w \in WorkerIds : SearchFileStep(w)
    \/ \E w \in WorkerIds : AcquireLock(w)
    \/ \E w \in WorkerIds : ReleaseLock(w)
    \/ \E w \in WorkerIds : Stall(w)
    \/ \E w \in WorkerIds : Emit(w)
    \/ \E c \in Contexts : process_search_result(c)
    \/ \E c \in Contexts : AddAppend(c)
    \/ \E c \in Contexts : AddIncrement(c)
    \/ \E c \in Contexts : AddCompare(c)

SpecLocks == InitSteps /\ [][NextLocks]_vars

\* what a SearchFileStep(w) does to worker
SearchFileReturns(w) ==
    /\ worker[w].pc = "started"
    /\ \E pc \in {"scanned", "searched", "crashed"} :
          worker' = [worker EXCEPT ![w].pc = pc]

\* The operating system runs every thread that can run: a thread that has
\* not stalled takes its next step, and a thread waiting for a lock gets it
\* if the lock stays unlocked.
FairLocks ==
    /\ SpecLocks
    /\ \A w \in WorkerIds :
          /\ WF_worker(SearchFileReturns(w))
          /\ WF_vars(AcquireLock(w))
          /\ WF_vars(ReleaseLock(w))
          /\ WF_worker(Emits(w))

----------------------------------------------------------------------------
(* SpecScan: the loops of the clean_code search_file taken one iteration   *)
(* at a time in every SearchThread, for the keywords the user may type;    *)
(* the line-mode search of file-search-project.py stays one step.          *)

\* search_file up to the first line: open() raising IOError or
\* PermissionError makes it return None, any other exception leaves it and
\* is caught in perform_search
OpenFile(w) ==
    /\ variant = "clean_code"
    /\ worker[w].pc = "started"
    /\ LET f == FileSystem(worker[w].filepath)
       IN  IF f.kind = "text"
           THEN /\ worker' = [worker EXCEPT ![w].pc = "scanning"]
                /\ scan' = [scan EXCEPT ![w] =
                               [line_num |-> 1, start_idx |-> 0, found |-> 0]]
           ELSE /\ worker' = [worker EXCEPT ![w].pc =
                                 IF RunRaises(variant, worker[w].filepath,
                                              worker[w].keyword) # ""
                                 THEN "crashed" ELSE "searched"]
                /\ UNCHANGED scan
    /\ UNCHANGED <<text_file, kw_input, engine, engine_calls, edits, mode_runs,
                   results_lock, variant, file_paths, sess, agg, inbox, cur,
                   results_table, results_display, slot_errors>>

\* one evaluation of the while condition of search_file: a match is
\* appended and start_idx moved, or the for loop goes to the next line, or
\* (no line left) search_file and perform_search return
ScanStep(w) ==
    /\ worker[w].pc = "scanning"
    /\ LET lines == FileLines(FileSystem(worker[w].filepath).content)
           keyword_lower == Lower(worker[w].keyword)
           sc == scan[w]
       IN  IF sc.line_num > Len(lines)
           THEN /\ worker' = [worker EXCEPT ![w].pc = "searched"]
                /\ UNCHANGED scan
           ELSE LET match_idx == find(Lower(lines[sc.line_num]), keyword_lower,
                                      sc.start_idx)
                IN  /\ UNCHANGED worker
                    /\ IF match_idx = -1
                       THEN scan' = [scan EXCEPT ![w].line_num = @ + 1,
                                                 ![w].start_idx = 0]
                       ELSE /\ sc.found < MaxMatches
                            /\ scan' = [scan EXCEPT
                                           ![w].start_idx =
                                               NextStart(match_idx, keyword_lower),
                                           ![w].found = @ + 1]
    /\ UNCHANGED <<text_file, kw_input, engine, engine_calls, edits, mode_runs,
                   results_lock, variant, file_paths, sess, agg, inbox, cur,
                   results_table, results_display, slot_errors>>

NextScan ==
    \/ NumSessions = 0
          /\ \E i \in 0..(MaxWindows - 1), p \in StepPaths \cup {""} : select_file(i, p)
    \/ NumSessions < SpecSessions
          /\ variant \in AggVariants
          /\ \E text \in Keywords : start_parallel_search(text)
    \/ \E w \in WorkerIds : OpenFile(w)
    \/ \E w \in WorkerIds : ScanStep(w)
    \/ \E w \in WorkerIds : variant = "fsp" /\ Search(w)
    \/ \E w \in WorkerIds : Emit(w)
    \/ \E c \in Contexts : process_search_result(c)
    \/ \E c \in Contexts : AddAppend(c)
    \/ \E c \in Contexts : AddIncrement(c)
    \/ \E c \in Contexts : AddCompare(c)

SpecScan == InitSteps /\ [][NextScan]_vars

\* what an OpenFile(w) step does to worker
Opens(w) ==
    /\ worker[w].pc = "started"
    /\ variant = "clean_code"
    /\ \E pc \in {"scanning", "searched", "crashed"} :
          worker' = [worker EXCEPT ![w].pc = pc]

\* The operating system runs every thread that can run.
FairScan ==
    /\ SpecScan
    /\ \A w \in WorkerIds :
          /\ WF_worker(Opens(w))
          /\ WF_vars(ScanStep(w))
          /\ WF_worker(variant = "fsp" /\ SearchReturns(w))
          /\ WF_worker(Emits(w))

----------------------------------------------------------------------------
(* Vocabulary of the properties.                                           *)

\* the SearchThreads session s created
SessWorkers(s) == {w \in WorkerIds : w[1] = s /\ worker[w].pc # "none"}

\* something of session s is still to be run by some thread of execution
Pending(s) ==
    \E c \in Contexts :
        \/ \E i \in 1..Len(inbox[c]) : inbox[c][i].item.from[1] = s
        \/ cur[c].pc # "idle" /\ cur[c].item.from[1] = s

\* session s was started and nothing of it remains to happen
SessionDone(s) ==
    /\ sess[s].created
    /\ \A w \in SessWorkers(s) : Terminated(w)
    /\ ~Pending(s)

AllNonEmpty(paths) == Len(paths) >= 1 /\ \A i \in 1..Len(paths) : paths[i] # ""

WindowIds(items) == {items[i].rec.window_id : i \in 1..Len(items)}

NoDuplicate(items) ==
    \A i, j \in 1..Len(items) :
        items[i].rec.window_id = items[j].rec.window_id => i = j

\* the records emitted so far, with their emitters
Emitted ==
    {[rec |-> RunRecord(variant, w[2], worker[w].filepath, worker[w].keyword),
      from |-> w] : w \in {x \in WorkerIds : worker[x].pc = "emitted"}}

----------------------------------------------------------------------------
\* C1: in a session of the aggregating variants whose file_paths are N >= 1
\* non-empty paths, the records that reach add_search_result carry distinct
\* window ids within 1..N, the report is shown at most once and holds N
\* records when shown, and once nothing of the session remains to happen
\* exactly the records 1..N were added and the report was shown once.
C1_ExactlyNRecordsOneReport ==
    variant \in AggVariants =>
        \A s \in Sessions :
            (sess[s].created /\ AllNonEmpty(sess[s].paths)) =>
                LET N == Len(sess[s].paths)
                    a == agg[s]
                IN  /\ NoDuplicate(a.all_results)
                    /\ WindowIds(a.all_results) \subseteq 1..N
                    /\ a.shown <= 1
                    /\ a.shown = 1 => /\ Len(a.results_table) = N
                                      /\ Len(a.all_results) = N
                    /\ SessionDone(s) => /\ WindowIds(a.all_results) = 1..N
                                         /\ Len(a.all_results) = N
                                         /\ a.shown = 1

\* a finished two-file clean_code session whose records arrived in the
\* order 2, 1
C1_Witness ==
    /\ variant = "clean_code"
    /\ sess[1].created /\ AllNonEmpty(sess[1].paths) /\ Len(sess[1].paths) = 2
    /\ SessionDone(1)
    /\ agg[1].shown = 1
    /\ Len(agg[1].all_results) = 2
    /\ agg[1].all_results[1].rec.window_id = 2

\* C2: in a session that passed validation and started at least one
\* SearchThread, once every thread has terminated and every queued slot
\* invocation has run, show_aggregated_results has run.
C2_ReportOnceWorkersDone ==
    variant \in AggVariants =>
        \A s \in Sessions :
            (SessWorkers(s) # {} /\ SessionDone(s)) => agg[s].shown >= 1

\* C3: the aggregator's total_windows equals the number of SearchThreads
\* started for its session.
C3_TotalIsThreadCount ==
    variant \in AggVariants =>
        \A s \in Sessions :
            agg[s].exists => agg[s].total_windows = Cardinality(SessWorkers(s))

\* C4: add_search_result runs in one thread of execution only (the GUI
\* thread), one record at a time: no other thread is inside a slot or has
\* one to run, and when the completion test of a record executes,
\* completed_searches counts exactly the records appended so far.
C4_AddSearchResultSerialized ==
    /\ \A c \in WorkerIds : cur[c].pc = "idle" /\ inbox[c] = <<>>
    /\ cur[GUI].pc = "compare" =>
          agg[cur[GUI].target].completed_searches
              = Len(agg[cur[GUI].target].all_results)
    /\ cur[GUI].pc = "increment" =>
          agg[cur[GUI].target].completed_searches + 1
              = Len(agg[cur[GUI].target].all_results)

\* the GUI thread is between the append and the increment of one record
\* while the add_search_result of another record waits in its queue
C4_Witness ==
    /\ variant \in AggVariants
    /\ cur[GUI].pc = "increment"
    /\ \E i \in 1..Len(inbox[GUI]) :
          /\ inbox[GUI][i].slot = "add_search_result"
          /\ inbox[GUI][i].item.from # cur[GUI].item.from

\* C5: in clean_code and file-search-project.py show_aggregated_results
\* runs at most once per ResultAggregationWindow.
C5_ReportAtMostOnce ==
    variant \in AggVariants => \A s \in Sessions : agg[s].shown <= 1

\* a file-search-project.py aggregator that took two records and has shown
\* its report
C5_Witness ==
    /\ variant = "fsp"
    /\ agg[1].completed_searches = 2
    /\ agg[1].shown = 1

\* the report of aggregator s, if taken, was taken with completed_searches
\* == total_windows, holds the record of every SearchThread started, and no
\* record was appended after it
ReportComplete(s) ==
    agg[s].shown >= 1 =>
        /\ agg[s].completed_searches = agg[s].total_windows
        /\ agg[s].results_table = agg[s].all_results
        /\ \A w \in WorkerIds :
              (worker[w].pc # "none" /\ (variant = "ui" \/ w[1] = s))
                  => \E i \in 1..Len(agg[s].all_results) :
                        agg[s].all_results[i].from = w

C7_NoRequestsRejected ==
    \A s \in Sessions :
        (sess[s].created \/ (variant # "ui" /\ agg[s].exists)) =>
            /\ sess[s].keyword # <<>>
            /\ \E i \in 1..Len(sess[s].paths) : sess[s].paths[i] # ""

\* C8: a started session without any non-empty path has delivered an empty
\* aggregate report (nothing else of it remains to happen).
C8_EmptySessionReports ==
    variant \in AggVariants =>
        \A s \in Sessions :
            (sess[s].created /\ ThreadSlots(sess[s].paths) = {}) =>
                /\ agg[s].shown >= 1
                /\ agg[s].results_table = <<>>

\* C9: no exception leaves SearchThread.run, and a thread has emitted
\* search_complete once when it has terminated and not before.
C9_EmitsExactlyOnce ==
    \A w \in WorkerIds :
        /\ worker[w].pc # "crashed"
        /\ worker[w].emits = IF worker[w].pc = "emitted" THEN 1 ELSE 0
        /\ Terminated(w) /\ worker[w].pc # "none" => worker[w].emits = 1

\* clean_code threads have terminated on an undecodable file and on a file
\* without read permission, each after one emit
C9_Witness ==
    /\ variant = "clean_code"
    /\ \E w, x \in WorkerIds :
          /\ worker[w].filepath = "bin.dat" /\ worker[x].filepath = "denied.txt"
          /\ worker[w].pc = "emitted" /\ worker[x].pc = "emitted"
          /\ worker[w].emits = 1 /\ worker[x].emits = 1

\* C10: the record a clean_code or main.py worker emits for an unreadable
\* path has match count 0, no matches, and an error description.
C10_UnreadableRecord ==
    variant \in {"clean_code", "main"} =>
        \A e \in Emitted :
            Unreadable(e.rec.filepath) =>
                /\ "match_count" \in DOMAIN e.rec
                /\ e.rec.match_count = 0
                /\ (IF variant = "main" THEN e.rec.matches ELSE e.rec.results) = <<>>
                /\ "error" \in DOMAIN e.rec

\* the match list of a record: 'results' (clean_code, file-search-project.py,
\* ui.py) or 'matches' (main.py)
MatchList(rec) == IF "matches" \in DOMAIN rec THEN rec.matches ELSE rec.results

\* C11: every record a clean_code or main.py worker has emitted holds a
\* match count, and it equals the length of the record's match list.
C11_MatchCountIsLen ==
    variant \in {"clean_code", "main"} =>
        \A e \in Emitted :
            /\ "match_count" \in DOMAIN e.rec
            /\ e.rec.match_count = Len(MatchList(e.rec))

\* the record worker w emits
RecordOf(w) == RunRecord(variant, w[2], worker[w].filepath, worker[w].keyword)

\* a slot invocation for the record of worker w is still to run or running
PendingFrom(w) ==
    \E c \in Contexts :
        \/ \E i \in 1..Len(inbox[c]) : inbox[c][i].item.from = w
        \/ cur[c].pc # "idle" /\ cur[c].item.from = w

\* C12: no slot raises; a row shown for a record of a failed file or of a
\* file without matches has match count 0; and once the slots of such a
\* record have run, the aggregator (if the variant has one) holds it.
C12_FailedRecordShownAndAggregated ==
    /\ slot_errors = {}
    /\ \A i \in 1..Len(results_table) :
          MatchList(RecordOf(results_table[i].from)) = <<>>
              => results_table[i].match_count = 0
    /\ \A w \in WorkerIds :
          LET s == IF variant = "ui" THEN 1 ELSE w[1]
          IN  (/\ worker[w].pc = "emitted"
               /\ MatchList(RecordOf(w)) = <<>>
               /\ ~PendingFrom(w)
               /\ agg[s].exists)
                  => \E i \in 1..Len(agg[s].all_results) :
                        agg[s].all_results[i].from = w

\* C13: in clean_code and file-search-project.py, completed_searches never
\* exceeds total_windows.
C13_CompletedWithinTotal ==
    variant \in AggVariants =>
        \A s \in Sessions : agg[s].completed_searches <= agg[s].total_windows

\* a clean_code aggregator has counted up to its total_windows = 2 the
\* records of a readable and of a missing file
C13_Witness ==
    /\ variant = "clean_code"
    /\ agg[1].total_windows = 2
    /\ agg[1].completed_searches = 2
    /\ {agg[1].all_results[i].rec.filepath : i \in 1..Len(agg[1].all_results)}
          = {"hit.txt", "gone.txt"}

----------------------------------------------------------------------------
(* The reference scan of a file, stated on the file's characters.          *)

Newlines(content) == {i \in 1..Len(content) : content[i] = "\n"}

\* the position of the k-th line terminator
NthNewline(content, k) ==
    CHOOSE i \in Newlines(content) :
        Cardinality({j \in Newlines(content) : j <= i}) = k

\* lines are numbered from 1; characters after the last terminator are a
\* line too
RefLineCount(content) ==
    Cardinality(Newlines(content))
        + (IF content # <<>> /\ content[Len(content)] # "\n" THEN 1 ELSE 0)

RefLine(content, k) ==
    SubSeq(content,
           IF k = 1 THEN 1 ELSE NthNewline(content, k - 1) + 1,
           IF k <= Cardinality(Newlines(content)) THEN NthNewline(content, k)
           ELSE Len(content))

OccursAt(line, key, o) ==
    /\ o \in 0..(Len(line) - Len(key))
    /\ \A j \in 1..Len(key) : line[o + j] = key[j]

\* the offsets a left-to-right scan reports when it resumes at i + len(key)
\* after a match at i: occurrences at least len(key) apart, every other
\* occurrence lying inside a reported one that starts before it
RefOffsets(line, key) ==
    LET occ == {o \in 0..Len(line) : OccursAt(line, key, o)}
    IN  CHOOSE P \in SUBSET occ :
            /\ \A p, q \in P : p < q => q - p >= Len(key)
            /\ \A o \in occ \ P : \E p \in P : p < o /\ o < p + Len(key)

\* <<line number, offset>> of each record
Positions(recs) == [i \in 1..Len(recs) |-> <<recs[i].line_num, recs[i].position>>]

\* C14: for every file and non-empty keyword, search_file returns exactly
\* the records of the reference scan: the <<line, offset>> pairs are those
\* of RefOffsets on each lower-cased line, lines numbered from 1 with a
\* last unterminated line included, in increasing (line, offset) order,
\* offsets of one line at least len(keyword) apart, each with its line's
\* stripped text.
C14_SearchFileIsReferenceScan ==
    \A n \in 1..Len(engine_calls) :
        LET c == engine_calls[n]
            recs == c.found.matches
            key == Lower(c.keyword)
            pos == Positions(recs)
        IN  /\ c.found.exc = ""
            /\ {pos[i] : i \in 1..Len(pos)}
                  = {<<k, o>> \in (1..RefLineCount(c.content)) \X (0..Len(c.content)) :
                        o \in RefOffsets(Lower(RefLine(c.content, k)), key)}
            /\ \A i, j \in 1..Len(pos) :
                  i < j => \/ pos[i][1] < pos[j][1]
                           \/ /\ pos[i][1] = pos[j][1]
                              /\ pos[j][2] - pos[i][2] >= Len(key)
            /\ \A i \in 1..Len(recs) :
                  recs[i].text = Strip(RefLine(c.content, recs[i].line_num))

\* search_file has scanned the unterminated line "aSaSaS" for "aS" and
\* reported the offsets 0, 2, 4
C14_Witness ==
    \E n \in 1..Len(engine_calls) :
        /\ engine_calls[n].content = LongLine
        /\ engine_calls[n].keyword = <<"a", "S">>
        /\ Positions(engine_calls[n].found.matches)
              = <<<<1, 0>>, <<1, 2>>, <<1, 4>>>>
        /\ engine_calls[n].found.matches[1].text = LongLine

\* two strings that differ in the case of letters only
SameUpToCase(s, t) ==
    /\ Len(s) = Len(t)
    /\ \A i \in 1..Len(s) :
          \/ s[i] = t[i]
          \/ t[i] \in OtherCases(s[i])
          \/ s[i] \in OtherCases(t[i])

\* C15: two searches whose files and keywords differ in the case of
\* letters only return the same sequence of <<line number, offset>>.
C15_CaseInsensitive ==
    \A m, n \in 1..Len(engine_calls) :
        (/\ SameUpToCase(engine_calls[m].content, engine_calls[n].content)
         /\ SameUpToCase(engine_calls[m].keyword, engine_calls[n].keyword))
            => Positions(engine_calls[m].found.matches)
                  = Positions(engine_calls[n].found.matches)

IsAscii(s) == \A i \in 1..Len(s) : s[i] # LongS

\* the same for files and keywords of ASCII characters
AsciiCaseInsensitive ==
    \A m, n \in 1..Len(engine_calls) :
        (/\ SameUpToCase(engine_calls[m].content, engine_calls[n].content)
         /\ SameUpToCase(engine_calls[m].keyword, engine_calls[n].keyword)
         /\ IsAscii(engine_calls[m].content) /\ IsAscii(engine_calls[n].content)
         /\ IsAscii(engine_calls[m].keyword) /\ IsAscii(engine_calls[n].keyword))
            => Positions(engine_calls[m].found.matches)
                  = Positions(engine_calls[n].found.matches)

\* C16: two calls of perform_search on the same engine instance, with the
\* same file content and keyword, return the same list, and search_file
\* inside them finds the same matches.
C16_SameCallSameResult ==
    \A m, n \in 1..Len(engine_calls) :
        (/\ engine_calls[m].content = engine_calls[n].content
         /\ engine_calls[m].keyword = engine_calls[n].keyword)
            => /\ engine_calls[m].results = engine_calls[n].results
               /\ engine_calls[m].found = engine_calls[n].found

\* the second call on an unchanged file returned two matches while the
\* instance's search_results held the first call's two matches
C16_Witness ==
    /\ Len(engine_calls) = 2
    /\ edits = 0
    /\ engine_calls[1].content = engine_calls[2].content
    /\ Len(engine_calls[2].results) = 2
    /\ Len(engine.search_results) = 4

IsPrefix(s, t) == Len(s) <= Len(t) /\ SubSeq(t, 1, Len(s)) = s

\* every SearchThread of session s has been started
AllStarted(s) ==
    \A i \in ThreadSlots(sess[s].paths) : worker[<<s, i>>].pc # "none"

\* a record of session s has been taken by process_search_result or
\* add_search_result
Consumed(s) ==
    \/ \E k \in 1..Len(results_table) : results_table[k].from[1] = s
    \/ agg[s].all_results # <<>>
    \/ \E c \in Contexts :
          cur[c].pc \in {"increment", "compare"} /\ cur[c].item.from[1] = s

\* C17: when a record of a session has been taken by process_search_result
\* or add_search_result, every SearchThread of the session has been
\* started; and while the handler is in the loop of
\* initialize_search_threads its next iteration can run, whatever the
\* threads started so far are doing.
C17_AllStartedBeforeConsumed ==
    /\ \A s \in Sessions : (sess[s].created /\ Consumed(s)) => AllStarted(s)
    /\ cur[GUI].pc = "init_threads" => ENABLED initialize_search_threads

\* the handler is about to start the second thread while the first has
\* emitted and its slot invocations wait in the GUI thread's queue
C17_Witness ==
    /\ cur[GUI].pc = "init_threads"
    /\ cur[GUI].i = 2
    /\ worker[<<1, 1>>].pc = "emitted"
    /\ worker[<<1, 2>>].pc = "none"
    /\ sess[1].paths = <<"hit.txt", "gone.txt">>
    /\ Len(inbox[GUI]) = 2
    /\ ~Consumed(1)

InTable(w) == \E k \in 1..Len(results_table) : results_table[k].from = w

InAggregator(w) ==
    \E k \in 1..Len(agg[w[1]].all_results) : agg[w[1]].all_results[k].from = w

\* C18: the record of every thread whose file read has returned is
\* eventually shown by process_search_result and eventually appended by
\* add_search_result, also when another thread of the session never
\* returns from its read; the aggregator of a session with such a thread
\* does not show its report; and rows of results_table and records of
\* all_results stay as they are (rows go only when the user starts a new
\* search).
C18_HungWorkerStallsOnlyReport ==
    /\ \A w \in WorkerIds : (worker[w].pc = "searched") ~> InTable(w)
    /\ \A w \in WorkerIds : (worker[w].pc = "searched") ~> InAggregator(w)
    /\ [](\A s \in Sessions :
            (\E w \in WorkerIds : w[1] = s /\ worker[w].pc = "hung")
                => agg[s].shown = 0)
    /\ [][/\ \A s \in Sessions : IsPrefix(agg[s].all_results, agg[s].all_results')
          /\ NumSessions' = NumSessions => IsPrefix(results_table, results_table')]_vars

\* the first thread of a session is blocked in its read, the record of the
\* second has been shown and appended, nothing else is left to run, and
\* the report has not been shown
C18_Witness ==
    /\ worker[<<1, 1>>].pc = "hung"
    /\ worker[<<1, 2>>].pc = "emitted"
    /\ InTable(<<1, 2>>) /\ InAggregator(<<1, 2>>)
    /\ inbox[GUI] = <<>> /\ cur[GUI].pc = "idle"
    /\ agg[1].shown = 0

\* C19: the aggregator of every accepted start_parallel_search call shows
\* its report at most once, exactly once when nothing of the call remains
\* to happen, and holds only records of threads started by that call.
C19_OneReportPerCall ==
    \A s \in Sessions :
        sess[s].created =>
            /\ agg[s].shown <= 1
            /\ SessionDone(s) => agg[s].shown = 1
            /\ \A k \in 1..Len(agg[s].all_results) :
                  agg[s].all_results[k].from[1] = s
            /\ \A k \in 1..Len(agg[s].results_table) :
                  agg[s].results_table[k].from[1] = s

\* C20: add_search_result only appends to all_results, so the list is in
\* the order the calls executed, and a report that is shown lists
\* all_results as it is.
C20_ReportInArrivalOrder ==
    [][\A s \in Sessions :
          /\ \/ agg[s].all_results' = agg[s].all_results
             \/ /\ Len(agg[s].all_results') = Len(agg[s].all_results) + 1
                /\ IsPrefix(agg[s].all_results, agg[s].all_results')
          /\ agg[s].shown' > agg[s].shown
                => agg[s].results_table' = agg[s].all_results']_vars

\* a file-search-project.py report lists window 2 before window 1, the
\* order their records arrived in
C20_Witness ==
    /\ variant = "fsp"
    /\ agg[1].shown = 1
    /\ Len(agg[1].results_table) = 2
    /\ agg[1].results_table[1].rec.window_id = 2
    /\ agg[1].results_table[2].rec.window_id = 1
    /\ agg[1].results_table = agg[1].all_results

\* aggregator s is inside add_search_result, between the append and the
\* increment
InsideAdd(s) ==
    \E c \in Contexts : cur[c].pc = "increment" /\ cur[c].target = s

\* C21: outside an executing add_search_result completed_searches equals
\* len(all_results); a step changes completed_searches only by +1, after
\* the one append of the same add_search_result, and changes all_results
\* only by one append, made when the counter had caught up.
C21_CompletedCountsAppends ==
    /\ [](\A s \in Sessions :
            ~InsideAdd(s) => agg[s].completed_searches = Len(agg[s].all_results))
    /\ [][\A s \in Sessions :
            /\ agg[s].completed_searches' # agg[s].completed_searches
                  => /\ agg[s].completed_searches' = agg[s].completed_searches + 1
                     /\ agg[s].all_results' = agg[s].all_results
                     /\ Len(agg[s].all_results) = agg[s].completed_searches + 1
            /\ agg[s].all_results' # agg[s].all_results
                  => /\ Len(agg[s].all_results') = Len(agg[s].all_results) + 1
                     /\ agg[s].completed_searches' = agg[s].completed_searches
                     /\ Len(agg[s].all_results) = agg[s].completed_searches]_vars

\* a clean_code aggregator has run add_search_result twice and is inside
\* none: the counter and the list both stand at 2
C21_Witness ==
    /\ variant = "clean_code"
    /\ ~InsideAdd(1)
    /\ cur[GUI].pc = "idle"
    /\ agg[1].completed_searches = 2
    /\ Len(agg[1].all_results) = 2

\* the records of session s handed to a slot so far: waiting in a queue,
\* inside add_search_result, shown as a row, or held by the aggregator
Delivered(s) ==
    {it \in UNION {{inbox[c][k].item : k \in 1..Len(inbox[c])} : c \in Contexts} :
        it.from[1] = s}
    \cup {cur[c].item : c \in {x \in Contexts : cur[x].pc \in {"increment", "compare"}
                                                   /\ cur[x].item.from[1] = s}}
    \cup {agg[s].all_results[k] : k \in 1..Len(agg[s].all_results)}

\* slot i of paths holds a selected file
Selected(paths, i) == i \in 1..Len(paths) /\ paths[i] # ""

\* C22: in the multi-file applications a SearchThread exists for slot i of
\* a session exactly when the path of slot i is non-empty; it searches that
\* path and emits window_id = i (slot index + 1); no record or row of the
\* session carries the window_id of an empty slot.
C22_NoThreadForEmptySlot ==
    variant # "ui" =>
        \A s \in Sessions :
            LET paths == sess[s].paths
            IN  /\ \A i \in Windows :
                      worker[<<s, i>>].pc # "none" <=> Selected(paths, i)
                /\ \A i \in Windows :
                      Selected(paths, i) =>
                          /\ worker[<<s, i>>].filepath = paths[i]
                          /\ RecordOf(<<s, i>>).window_id = i
                          /\ worker[<<s, i>>].emits <= 1
                /\ \A it \in Delivered(s) :
                      /\ Selected(paths, it.rec.window_id)
                      /\ it.rec.filepath = paths[it.rec.window_id]
                /\ \A k \in 1..Len(results_table) :
                      results_table[k].from[1] = s
                          => /\ Selected(paths, results_table[k].window_id)
                             /\ results_table[k].filepath
                                   = paths[results_table[k].window_id]

\* a main.py search over file_paths ['', 'hit.txt'] has ended: no thread
\* for slot 0, one row, of window_id 2
C22_Witness ==
    /\ variant = "main"
    /\ sess[1].created
    /\ sess[1].paths = <<"", "hit.txt">>
    /\ worker[<<1, 1>>].pc = "none"
    /\ worker[<<1, 2>>].pc = "emitted"
    /\ Len(results_table) = 1
    /\ results_table[1].window_id = 2
    /\ inbox[GUI] = <<>>

\* the line numbers of a list of occurrence records
LineNumbers(recs) == {recs[i].line_num : i \in 1..Len(recs)}

\* C23: on the same file and non-empty keyword, the line-mode search_file
\* reports as many lines as the occurrence-mode result has distinct line
\* numbers (and raises when it raises); the match_count of main.py equals
\* the number of occurrence-mode records, and when main.py computes none
\* (the file cannot be read) the occurrence-mode result is empty.
C23_OccurrenceGeneralizesLine ==
    /\ {"lines", "occurrences"} \subseteq mode_runs.done
          => /\ Len(mode_runs.lines.matches)
                   = Cardinality(LineNumbers(mode_runs.occurrences.matches))
             /\ mode_runs.lines.exc = mode_runs.occurrences.exc
             /\ mode_runs.lines.is_none = mode_runs.occurrences.is_none
    /\ {"main", "occurrences"} \subseteq mode_runs.done
          => IF "match_count" \in DOMAIN mode_runs.main
             THEN mode_runs.main.match_count = Len(mode_runs.occurrences.matches)
             ELSE mode_runs.occurrences.matches = <<>>

\* the three implementations have searched the line "aSaSaS" for "as":
\* line mode reports one line, occurrence mode three records of line 1,
\* main.py a match_count of 3
C23_Witness ==
    /\ mode_runs.done = {"lines", "occurrences", "main"}
    /\ text_file.content = LongLine
    /\ kw_input = <<"a", "s">>
    /\ Len(mode_runs.lines.matches) = 1
    /\ Len(mode_runs.occurrences.matches) = 3
    /\ mode_runs.main.match_count = 3

\* C24: a thread about to enter `with self.results_lock:` finds the lock
\* unlocked (it never waits), a lock is only ever held by the thread that
\* owns its engine, and every started thread that does not itself stall
\* emits its record (or ends), whatever the other threads do, also when
\* one of them has stalled holding its lock.
C24_WorkersNeverBlockEachOther ==
    /\ [](\A w \in WorkerIds : worker[w].pc = "scanned" => ENABLED AcquireLock(w))
    /\ [](\A e \in Engines : results_lock[e] \in {Free, e})
    /\ \A w \in WorkerIds :
          (worker[w].pc = "started") ~> (worker[w].pc \in {"emitted", "hung"})

\* the first thread has stalled holding its results_lock and the second
\* has gone through its own lock and emitted
C24_Witness ==
    /\ worker[<<1, 1>>].pc = "hung"
    /\ results_lock[<<1, 1>>] = <<1, 1>>
    /\ worker[<<1, 2>>].pc = "emitted"
    /\ worker[<<1, 2>>].filepath = "hit.txt"
    /\ results_lock[<<1, 2>>] = Free

\* the invocation of slot for the record of worker w waits in a queue
Queued(slot, w) ==
    \E c \in Contexts : \E i \in 1..Len(inbox[c]) :
        inbox[c][i].slot = slot /\ inbox[c][i].item.from = w

\* add_search_result has taken the record of worker w
AddStarted(w) ==
    \/ InAggregator(w)
    \/ \E c \in Contexts : cur[c].pc # "idle" /\ cur[c].item.from = w

\* the rows of the per-file table that show the record of worker w
RowsOf(w, table) == {r \in 1..Len(table) : table[r].from = w}

\* C25: process_search_result runs before add_search_result for the same
\* record (in a queue the first precedes the second, and the second has
\* not taken a record whose first still waits), and a step that produces
\* the aggregate report leaves a per-file table holding one row for every
\* record of the report.
C25_RowBeforeReport ==
    /\ [](\A w \in WorkerIds :
            /\ AddStarted(w) => ~Queued("process_search_result", w)
            /\ \A c \in Contexts : \A i, j \in 1..Len(inbox[c]) :
                  (/\ inbox[c][i].item.from = w /\ inbox[c][j].item.from = w
                   /\ inbox[c][i].slot = "process_search_result"
                   /\ inbox[c][j].slot = "add_search_result") => i < j)
    /\ [][\A s \in Sessions :
            (variant \in AggVariants /\ agg[s].shown' > agg[s].shown)
                => \A k \in 1..Len(agg[s].results_table') :
                      Cardinality(RowsOf(agg[s].results_table'[k].from,
                                         results_table')) = 1]_vars

\* C26: the keyword of every SearchThread is non-empty (and in clean_code
\* holds no leading or trailing whitespace); in the occurrence loop of
\* search_file every match moves start_idx forward, the matches of a file
\* are no more than its characters, and every started thread gets through
\* its search and emits.
C26_WorkersTerminate ==
    /\ [](\A w \in WorkerIds :
            worker[w].pc # "none" =>
                /\ worker[w].keyword # <<>>
                /\ variant = "clean_code" => Strip(worker[w].keyword) = worker[w].keyword
                /\ scan[w].found <= Len(FileSystem(worker[w].filepath).content)
                /\ scan[w].found < MaxMatches)
    /\ [][\A w \in WorkerIds :
            scan[w].found' > scan[w].found /\ worker[w].pc = "scanning"
                => scan[w].start_idx' > scan[w].start_idx]_vars
    /\ \A w \in WorkerIds :
          (worker[w].pc = "started") ~> (worker[w].pc = "emitted")

\* a clean_code thread has scanned "b\n AxaX" for "aX": two matches on
\* line 2, start_idx moved to the end of the line, and it has emitted
C26_Witness ==
    /\ variant = "clean_code"
    /\ \E w \in WorkerIds :
          /\ worker[w].pc = "emitted"
          /\ worker[w].filepath = "hit.txt"
          /\ worker[w].keyword = <<"a", "X">>
          /\ scan[w].found = 2
          /\ scan[w].line_num = 3

\* C27: every row of the per-file table shows a record of a thread started
\* by the latest accepted start_parallel_search call, the one whose
\* reset_search_results emptied the table last.
C27_RowsOfLatestCall ==
    \A k \in 1..Len(results_table) : results_table[k].from[1] = NumSessions

====
